---- MODULE Spec2Model ----
(***************************************************************************)
(* Lifecycle of the http server of server/server.go: Start launches the    *)
(* Serve Loop goroutine (startServer), subscribes to os.Interrupt and      *)
(* launches the Interrupt Watcher goroutine (shutdownOnInterruptSignal),   *)
(* and then blocks on the unbuffered channel `shutdown`                    *)
(* (waitForServerToClose).                                                 *)
(*                                                                         *)
(* Strings are sequences of one-character strings.  Error values are       *)
(* strings; Nil is Go's nil error.  net.Listen, http.Server.Serve,         *)
(* ServeTLS and Shutdown are library calls: their outcomes are chosen      *)
(* nondeterministically among the outcomes their documentation allows.     *)
(* An interrupt that arrives before signal.Notify has run terminates the   *)
(* process and is outside Start's control; interrupts are modelled from    *)
(* the subscription on.                                                    *)
(***************************************************************************)
EXTENDS Integers, Sequences, FiniteSets, TLC

VARIABLES
    address, cert, key,      \* arguments of Start
    mainPc, result,          \* position of the goroutine running Start and its return value
    servePc, serveErr,       \* position of the Serve Loop goroutine and the err it holds
    network, bindAddr,       \* arguments of the net.Listen call made by listenAndServe
    serveMode,               \* "plain" (srv.Serve) or "tls" (srv.ServeTLS) once chosen
    watcherPc, watcherErr,   \* position of the Interrupt Watcher goroutine and its err
    subscribed, interrupt,   \* notifySignal has run; number of signals buffered in `interrupt`
    interrupts,              \* number of os.Interrupt signals delivered to the process
    inShutdown,              \* srv.Shutdown has been entered (listeners closed)
    shutdownCalls,           \* number of invocations of serverShutdown
    shutdownRet,             \* value returned by serverShutdown ("none" before it returns)
    received, recvCount,     \* value(s) taken from `shutdown` by the waiter
    recvFrom,                \* which producer's send the waiter took
    watcherSent,             \* the watcher's send on `shutdown` completed
    intWhileServing,         \* an interrupt arrived while the accept loop was running
    hasServed                \* srv.Serve registered the listener and ran its accept loop

vars == <<address, cert, key, mainPc, result, servePc, serveErr, network,
          bindAddr, serveMode, watcherPc, watcherErr, subscribed, interrupt,
          interrupts, inShutdown, shutdownCalls, shutdownRet, received,
          recvCount, recvFrom, watcherSent, intWhileServing, hasServed>>

----------------------------------------------------------------------------
(* Bounds *)

MaxInterrupts == 3
MaxPathLen == 3

(* Program constants *)

InterruptCap == 1

----------------------------------------------------------------------------
(* Error values *)

Nil == "nil"
ErrServerClosed == "http.ErrServerClosed"
BindError == "listen error"
TLSError == "tls.LoadX509KeyPair error"
ServeError == "accept error"
ShutdownErrors == {"context.DeadlineExceeded", "listener close error"}
FailureErrors == {BindError, TLSError, ServeError}

----------------------------------------------------------------------------
(* strings.HasPrefix / strings.TrimPrefix and the Listener Factory *)

UnixPrefix == <<"u", "n", "i", "x", ":">>

ToLower(s) ==
    [i \in 1..Len(s) |->
        CASE s[i] = "U" -> "u"
          [] s[i] = "N" -> "n"
          [] s[i] = "I" -> "i"
          [] s[i] = "X" -> "x"
          [] OTHER -> s[i]]

HasPrefix_FoldCase(s, prefix) ==
    /\ Len(s) >= Len(prefix)
    /\ SubSeq(ToLower(s), 1, Len(prefix)) = ToLower(prefix)

HasPrefix(s, prefix) ==
    /\ Len(s) >= Len(prefix)
    /\ SubSeq(s, 1, Len(prefix)) = prefix

TrimPrefix(s, prefix) ==
    IF HasPrefix(s, prefix) THEN SubSeq(s, Len(prefix) + 1, Len(s)) ELSE s

listenNetwork(addr) ==
    IF HasPrefix(addr, UnixPrefix) THEN "unix" ELSE "tcp"

listenAddress(addr) ==
    IF HasPrefix(addr, UnixPrefix) THEN TrimPrefix(addr, UnixPrefix) ELSE addr

useTLS(c, k) == c # <<>> \/ k # <<>>

----------------------------------------------------------------------------
(* Inputs *)

SeqsUpTo(S, n) == UNION {[1..m -> S] : m \in 0..n}

PathChars == {"/", "a", ":", "u"}

Prefixes == { <<>>,
              <<"u", "n", "i", "x", ":">>,
              <<"U", "N", "I", "X", ":">>,
              <<"U", "n", "i", "x", ":">>,
              <<"u", "n", "i", "x">>,
              <<"n", "i", "x", ":">>,
              <<"t", "c", "p", ":">>,
              <<" ", "u", "n", "i", "x", ":">>,
              <<"u", "n", "i", "x", ":", "u", "n", "i", "x", ":">> }

Addresses == {p \o r : p \in Prefixes, r \in SeqsUpTo(PathChars, MaxPathLen)}

MainAddresses == { <<"u", "n", "i", "x", ":", "/", "a">>, <<":", "a">> }

Paths == { <<>>, <<"p">> }

----------------------------------------------------------------------------
(* State before Start is called *)

InitWith(addrs) ==
    /\ address \in addrs
    /\ cert \in Paths
    /\ key \in Paths
    /\ mainPc = "startServer"
    /\ result = "none"
    /\ servePc = "none"
    /\ serveErr = "none"
    /\ network = "none"
    /\ bindAddr = <<>>
    /\ serveMode = "none"
    /\ watcherPc = "none"
    /\ watcherErr = "none"
    /\ subscribed = FALSE
    /\ interrupt = 0
    /\ interrupts = 0
    /\ inShutdown = FALSE
    /\ shutdownCalls = 0
    /\ shutdownRet = "none"
    /\ received = "none"
    /\ recvCount = 0
    /\ recvFrom = "none"
    /\ watcherSent = FALSE
    /\ intWhileServing = FALSE
    /\ hasServed = FALSE

Init == InitWith(MainAddresses)

----------------------------------------------------------------------------
(* Start, on the calling goroutine *)

\* Start line 32: startServer builds srv, makes the unbuffered channel and
\* launches the Serve Loop goroutine; nothing is bound yet when it returns.
startServer_WaitFirst ==
    /\ mainPc = "startServer"
    /\ mainPc' = "wait"
    /\ servePc' = "listen"
    /\ UNCHANGED <<address, cert, key, hasServed, result, serveErr, network, bindAddr,
                   serveMode, watcherPc, watcherErr, subscribed, interrupt,
                   interrupts, inShutdown, shutdownCalls, shutdownRet,
                   received, recvCount, recvFrom, watcherSent,
                   intWhileServing>>

startServer ==
    /\ mainPc = "startServer"
    /\ mainPc' = "notifySignal"
    /\ servePc' = "listen"
    /\ UNCHANGED <<address, cert, key, hasServed, result, serveErr, network, bindAddr,
                   serveMode, watcherPc, watcherErr, subscribed, interrupt,
                   interrupts, inShutdown, shutdownCalls, shutdownRet,
                   received, recvCount, recvFrom, watcherSent,
                   intWhileServing>>

\* shutdownOnInterruptSignal lines 92-93: make(chan os.Signal, 1) and
\* signal.Notify(interrupt, os.Interrupt).
notifySignal ==
    /\ mainPc = "notifySignal"
    /\ subscribed' = TRUE
    /\ mainPc' = "goWatcher"
    /\ UNCHANGED <<address, cert, key, hasServed, result, servePc, serveErr, network,
                   bindAddr, serveMode, watcherPc, watcherErr, interrupt,
                   interrupts, inShutdown, shutdownCalls, shutdownRet,
                   received, recvCount, recvFrom, watcherSent,
                   intWhileServing>>

\* shutdownOnInterruptSignal line 95: launch the watcher goroutine and return;
\* Start goes on to waitForServerToClose and blocks in `<-shutdown`.
goWatcher ==
    /\ mainPc = "goWatcher"
    /\ watcherPc' = "recvInterrupt"
    /\ mainPc' = "wait"
    /\ UNCHANGED <<address, cert, key, hasServed, result, servePc, serveErr, network,
                   bindAddr, serveMode, watcherErr, subscribed, interrupt,
                   interrupts, inShutdown, shutdownCalls, shutdownRet,
                   received, recvCount, recvFrom, watcherSent,
                   intWhileServing>>

\* waitForServerToClose lines 108-111.
waitForServerToClose_WrongSentinel(err) ==
    IF err = "context.DeadlineExceeded" THEN Nil ELSE err

waitForServerToClose_NoNormalize(err) == err

waitForServerToClose_AllNil(err) == Nil

waitForServerToClose(err) ==
    IF err = ErrServerClosed THEN Nil ELSE err

\* waitForServerToClose line 107 completing as the receiving half of a
\* rendezvous on the unbuffered channel, followed by Start's return.
receive_Drain(v, from) ==
    /\ mainPc = "wait"
    /\ received' = v
    /\ recvCount' = recvCount + 1
    /\ recvFrom' = from
    /\ result' = waitForServerToClose(v)
    /\ mainPc' = IF v = ErrServerClosed /\ recvCount = 0 THEN "wait" ELSE "returned"

receive(v, from) ==
    /\ mainPc = "wait"
    /\ received' = v
    /\ recvCount' = recvCount + 1
    /\ recvFrom' = from
    /\ result' = waitForServerToClose(v)
    /\ mainPc' = "returned"

----------------------------------------------------------------------------
(* The Serve Loop goroutine (startServer lines 57-61, listenAndServe) *)

\* listenAndServe lines 71-78: net.Listen on the chosen network and address.
listen ==
    /\ servePc = "listen"
    /\ network' = listenNetwork(address)
    /\ bindAddr' = listenAddress(address)
    /\ \E ok \in BOOLEAN :
         IF ok
         THEN servePc' = "bound" /\ UNCHANGED serveErr
         ELSE servePc' = "send" /\ serveErr' = BindError
    /\ UNCHANGED <<address, cert, key, hasServed, mainPc, result, serveMode, watcherPc,
                   watcherErr, subscribed, interrupt, interrupts, inShutdown,
                   shutdownCalls, shutdownRet, received, recvCount, recvFrom,
                   watcherSent, intWhileServing>>

\* listenAndServe lines 81-87: enter srv.ServeTLS or srv.Serve.  ServeTLS
\* loads the key pair first; Serve returns ErrServerClosed at once when
\* Shutdown has already been entered, and otherwise registers the listener
\* and runs the accept loop.
serve_FallbackToPlain ==
    /\ servePc = "bound"
    /\ \E loaded \in BOOLEAN :
         /\ serveMode' = IF useTLS(cert, key) /\ loaded THEN "tls" ELSE "plain"
         /\ IF inShutdown
            THEN servePc' = "send" /\ serveErr' = ErrServerClosed
                 /\ UNCHANGED hasServed
            ELSE servePc' = "serving" /\ hasServed' = TRUE
                 /\ UNCHANGED serveErr
    /\ UNCHANGED <<address, cert, key, mainPc, result, network, bindAddr,
                   watcherPc, watcherErr, subscribed, interrupt, interrupts,
                   inShutdown, shutdownCalls, shutdownRet, received,
                   recvCount, recvFrom, watcherSent, intWhileServing>>

serve ==
    /\ servePc = "bound"
    /\ serveMode' = IF useTLS(cert, key) THEN "tls" ELSE "plain"
    /\ \E loaded \in BOOLEAN :
         IF useTLS(cert, key) /\ ~loaded
         THEN servePc' = "send" /\ serveErr' = TLSError
              /\ UNCHANGED hasServed
         ELSE IF inShutdown
              THEN servePc' = "send" /\ serveErr' = ErrServerClosed
                   /\ UNCHANGED hasServed
              ELSE servePc' = "serving" /\ hasServed' = TRUE
                   /\ UNCHANGED serveErr
    /\ UNCHANGED <<address, cert, key, mainPc, result, network, bindAddr,
                   watcherPc, watcherErr, subscribed, interrupt, interrupts,
                   inShutdown, shutdownCalls, shutdownRet, received,
                   recvCount, recvFrom, watcherSent, intWhileServing>>

\* srv.Serve returns ErrServerClosed once Shutdown has closed the listener.
serveClosed ==
    /\ servePc = "serving"
    /\ inShutdown
    /\ servePc' = "send"
    /\ serveErr' = ErrServerClosed
    /\ UNCHANGED <<address, cert, key, hasServed, mainPc, result, network, bindAddr,
                   serveMode, watcherPc, watcherErr, subscribed, interrupt,
                   interrupts, inShutdown, shutdownCalls, shutdownRet,
                   received, recvCount, recvFrom, watcherSent,
                   intWhileServing>>

\* srv.Serve returns a permanent accept error; the goroutine only forwards it.
serveFail_Shutdown ==
    /\ servePc = "serving"
    /\ ~inShutdown
    /\ servePc' = "send"
    /\ serveErr' = ServeError
    /\ inShutdown' = TRUE
    /\ shutdownCalls' = shutdownCalls + 1
    /\ UNCHANGED <<address, cert, key, hasServed, mainPc, result, network, bindAddr,
                   serveMode, watcherPc, watcherErr, subscribed, interrupt,
                   interrupts, shutdownRet, received, recvCount, recvFrom,
                   watcherSent, intWhileServing>>

serveFail ==
    /\ servePc = "serving"
    /\ ~inShutdown
    /\ servePc' = "send"
    /\ serveErr' = ServeError
    /\ UNCHANGED <<address, cert, key, hasServed, mainPc, result, network, bindAddr,
                   serveMode, watcherPc, watcherErr, subscribed, interrupt,
                   interrupts, inShutdown, shutdownCalls, shutdownRet,
                   received, recvCount, recvFrom, watcherSent,
                   intWhileServing>>

\* startServer line 60: `shutdown <- err` meets the waiter's receive.
serveSend_AfterShutdown ==
    /\ servePc = "send"
    /\ watcherPc # "inShutdown"
    /\ receive(serveErr, "serve")
    /\ servePc' = "done"
    /\ UNCHANGED <<address, cert, key, hasServed, serveErr, network, bindAddr,
                   serveMode, watcherPc, watcherErr, subscribed, interrupt,
                   interrupts, inShutdown, shutdownCalls, shutdownRet,
                   watcherSent, intWhileServing>>

serveSend ==
    /\ servePc = "send"
    /\ receive(serveErr, "serve")
    /\ servePc' = "done"
    /\ UNCHANGED <<address, cert, key, hasServed, serveErr, network, bindAddr,
                   serveMode, watcherPc, watcherErr, subscribed, interrupt,
                   interrupts, inShutdown, shutdownCalls, shutdownRet,
                   watcherSent, intWhileServing>>

----------------------------------------------------------------------------
(* The Interrupt Watcher goroutine (shutdownOnInterruptSignal lines 95-103) *)

\* The runtime's signal delivery: a non-blocking send on `interrupt`, which
\* drops the signal when the one-slot buffer is full.
deliverInterrupt_Unbuffered ==
    /\ subscribed
    /\ interrupts < MaxInterrupts
    /\ interrupts' = interrupts + 1
    /\ interrupt' = IF watcherPc = "recvInterrupt" /\ interrupt < InterruptCap
                    THEN interrupt + 1 ELSE interrupt
    /\ intWhileServing' = (intWhileServing \/ (servePc = "serving" /\ ~inShutdown))
    /\ UNCHANGED <<address, cert, key, hasServed, mainPc, result, servePc, serveErr,
                   network, bindAddr, serveMode, watcherPc, watcherErr,
                   subscribed, inShutdown, shutdownCalls, shutdownRet,
                   received, recvCount, recvFrom, watcherSent>>

deliverInterrupt ==
    /\ subscribed
    /\ interrupts < MaxInterrupts
    /\ interrupts' = interrupts + 1
    /\ interrupt' = IF interrupt < InterruptCap THEN interrupt + 1 ELSE interrupt
    /\ intWhileServing' = (intWhileServing \/ (servePc = "serving" /\ ~inShutdown))
    /\ UNCHANGED <<address, cert, key, hasServed, mainPc, result, servePc, serveErr,
                   network, bindAddr, serveMode, watcherPc, watcherErr,
                   subscribed, inShutdown, shutdownCalls, shutdownRet,
                   received, recvCount, recvFrom, watcherSent>>

\* line 96: `<-interrupt`.
recvInterrupt ==
    /\ watcherPc = "recvInterrupt"
    /\ interrupt > 0
    /\ interrupt' = interrupt - 1
    /\ watcherPc' = "callShutdown"
    /\ UNCHANGED <<address, cert, key, hasServed, mainPc, result, servePc, serveErr,
                   network, bindAddr, serveMode, watcherErr, subscribed,
                   interrupts, inShutdown, shutdownCalls, shutdownRet,
                   received, recvCount, recvFrom, watcherSent,
                   intWhileServing>>

\* lines 98-100: serverShutdown(server, ctx) is entered; srv.Shutdown marks
\* the server as shutting down and closes its listeners before it waits.
serverShutdown_OtherServer ==
    /\ watcherPc = "callShutdown"
    /\ shutdownCalls' = shutdownCalls + 1
    /\ watcherPc' = "inShutdown"
    /\ UNCHANGED <<address, cert, key, hasServed, mainPc, result, servePc, serveErr,
                   network, bindAddr, serveMode, watcherErr, subscribed,
                   interrupt, interrupts, inShutdown, shutdownRet, received,
                   recvCount, recvFrom, watcherSent, intWhileServing>>

serverShutdown ==
    /\ watcherPc = "callShutdown"
    /\ shutdownCalls' = shutdownCalls + 1
    /\ inShutdown' = TRUE
    /\ watcherPc' = "inShutdown"
    /\ UNCHANGED <<address, cert, key, hasServed, mainPc, result, servePc, serveErr,
                   network, bindAddr, serveMode, watcherErr, subscribed,
                   interrupt, interrupts, shutdownRet, received, recvCount,
                   recvFrom, watcherSent, intWhileServing>>

\* Values srv.Shutdown can return: closing a listener or waiting for open
\* connections can only fail when Serve registered a listener before.
shutdownResults ==
    IF hasServed THEN {Nil} \cup ShutdownErrors ELSE {Nil}

\* lines 100-102: serverShutdown returns; only a non-nil err is sent.
shutdownReturn_AlwaysSend ==
    /\ watcherPc = "inShutdown"
    /\ \E r \in shutdownResults :
         /\ shutdownRet' = r
         /\ watcherPc' = "send"
         /\ watcherErr' = r
    /\ UNCHANGED <<address, cert, key, hasServed, mainPc, result, servePc, serveErr,
                   network, bindAddr, serveMode, subscribed, interrupt,
                   interrupts, inShutdown, shutdownCalls, received,
                   recvCount, recvFrom, watcherSent, intWhileServing>>

shutdownReturn_Loop ==
    /\ watcherPc = "inShutdown"
    /\ \E r \in shutdownResults :
         /\ shutdownRet' = r
         /\ IF r # Nil
            THEN watcherPc' = "send" /\ watcherErr' = r
            ELSE watcherPc' = "recvInterrupt" /\ UNCHANGED watcherErr
    /\ UNCHANGED <<address, cert, key, hasServed, mainPc, result, servePc, serveErr,
                   network, bindAddr, serveMode, subscribed, interrupt,
                   interrupts, inShutdown, shutdownCalls, received,
                   recvCount, recvFrom, watcherSent, intWhileServing>>

shutdownReturn ==
    /\ watcherPc = "inShutdown"
    /\ \E r \in shutdownResults :
         /\ shutdownRet' = r
         /\ IF r # Nil
            THEN watcherPc' = "send" /\ watcherErr' = r
            ELSE watcherPc' = "done" /\ UNCHANGED watcherErr
    /\ UNCHANGED <<address, cert, key, hasServed, mainPc, result, servePc, serveErr,
                   network, bindAddr, serveMode, subscribed, interrupt,
                   interrupts, inShutdown, shutdownCalls, received,
                   recvCount, recvFrom, watcherSent, intWhileServing>>

\* line 101: `shutdown <- err` meets the waiter's receive.
watcherSend ==
    /\ watcherPc = "send"
    /\ receive(watcherErr, "watcher")
    /\ watcherPc' = "done"
    /\ watcherSent' = TRUE
    /\ UNCHANGED <<address, cert, key, hasServed, servePc, serveErr, network, bindAddr,
                   serveMode, watcherErr, subscribed, interrupt, interrupts,
                   inShutdown, shutdownCalls, shutdownRet, intWhileServing>>

----------------------------------------------------------------------------

Next ==
    \/ startServer
    \/ notifySignal
    \/ goWatcher
    \/ listen
    \/ serve
    \/ serveClosed
    \/ serveFail
    \/ serveSend
    \/ deliverInterrupt
    \/ recvInterrupt
    \/ serverShutdown
    \/ shutdownReturn
    \/ watcherSend

Spec == Init /\ [][Next]_vars

\* Scheduling: every goroutine that can take a step eventually takes it, a
\* library call that can return eventually returns, and a send that meets
\* the waiter's receive completes.  Interrupts and accept faults are the
\* environment's and are not forced.
Fairness ==
    /\ WF_vars(startServer)
    /\ WF_vars(notifySignal)
    /\ WF_vars(goWatcher)
    /\ WF_vars(listen)
    /\ WF_vars(serve)
    /\ WF_vars(serveClosed)
    /\ WF_vars(serveSend)
    /\ WF_vars(recvInterrupt)
    /\ WF_vars(serverShutdown)
    /\ WF_vars(shutdownReturn)
    /\ WF_vars(watcherSend)

SpecFair == Spec /\ Fairness

\* The Listener Factory on its own, over the whole bounded set of addresses.
InitListen == InitWith(Addresses)

NextListen ==
    \/ startServer
    \/ listen

SpecListen == InitListen /\ [][NextListen]_vars

----------------------------------------------------------------------------
(* Properties *)

\* C1: a producer that loses the race on the Outcome Channel is never left
\* blocked on its send: once Start has returned (its single receive is
\* spent), neither the Serve Loop goroutine nor the Interrupt Watcher is
\* still parked in `shutdown <- err`.
C1_NoProducerBlockedForever ==
    mainPc = "returned" => servePc # "send" /\ watcherPc # "send"

\* C2: when an interrupt was received and serverShutdown returned a non-nil
\* error, the value Start returns is that error.
C2_ForcedShutdownErrorReturned ==
    mainPc = "returned" /\ shutdownRet \in ShutdownErrors => result = shutdownRet

\* C3 (as stated): an interrupt delivered while the accept loop is running,
\* with no serve error, makes Start return nil.
C3_InterruptWhileServingReturnsNil ==
    mainPc = "returned" /\ intWhileServing /\ serveErr # ServeError
        => result = Nil

\* C3 (amended): an interrupt delivered while the accept loop is running,
\* with no serve error and with no non-nil error returned by serverShutdown,
\* makes Start return nil: the value received is the Serve Loop's
\* ErrServerClosed, normalized to success.
C3_InterruptThenCleanShutdownReturnsNil ==
    mainPc = "returned" /\ intWhileServing /\ serveErr # ServeError
                        /\ shutdownRet \notin ShutdownErrors
        => result = Nil /\ received = ErrServerClosed /\ recvFrom = "serve"

C3_Witness ==
    /\ mainPc = "returned"
    /\ intWhileServing
    /\ shutdownRet = Nil
    /\ received = ErrServerClosed
    /\ result = Nil

\* C4: when the Serve Loop ended with an error other than ErrServerClosed and
\* no interrupt has been delivered, Start returns exactly that error and
\* serverShutdown has not been invoked; serverShutdown is only ever invoked
\* after an interrupt.
C4_ServeFailureReturnedVerbatim ==
    /\ shutdownCalls > 0 => interrupts > 0
    /\ inShutdown => shutdownCalls > 0
    /\ mainPc = "returned" /\ interrupts = 0
         => /\ serveErr \in FailureErrors
            /\ result = serveErr
            /\ shutdownCalls = 0
            /\ ~inShutdown

C4_Witness ==
    /\ mainPc = "returned"
    /\ interrupts = 0
    /\ serveErr = ServeError
    /\ result = ServeError
    /\ shutdownCalls = 0

\* C5: a startup error aborts Start before any background activity: when
\* binding has failed, neither the Serve Loop goroutine nor the interrupt
\* subscription / watcher goroutine has been launched, and a bind error
\* returned by Start did not come through the Outcome Channel.
C5_BindErrorBeforeBackgroundActivity ==
    /\ serveErr = BindError
         => servePc = "none" /\ watcherPc = "none" /\ ~subscribed
    /\ result = BindError => recvCount = 0

\* C6: per invocation of Start the waiter takes exactly one value from the
\* Outcome Channel, whichever producer fires first: never a second one, and
\* Start has returned (with a result) exactly when that one receive happened.
C6_ExactlyOneReceive ==
    /\ recvCount \in {0, 1}
    /\ (mainPc = "returned") <=> (recvCount = 1)
    /\ (result # "none") <=> (recvCount = 1)
    /\ ~(servePc = "done" /\ watcherSent)

C6_Witness ==
    /\ mainPc = "returned"
    /\ recvCount = 1
    /\ \/ servePc = "send" /\ watcherSent
       \/ watcherPc = "send" /\ servePc = "done"

\* C7: the value Start returns is nil when the received value is
\* http.ErrServerClosed and is the received value itself otherwise; nothing
\* else becomes nil and no error is replaced by another.
C7_NormalizeOnlySentinel ==
    mainPc = "returned"
        => /\ received = ErrServerClosed => result = Nil
           /\ received # ErrServerClosed => result = received
           /\ result = Nil => received = ErrServerClosed

C7_Witness ==
    /\ mainPc = "returned"
    /\ received = ErrServerClosed
    /\ result = Nil

\* C8: the Interrupt Watcher executes its send on the Outcome Channel if and
\* only if serverShutdown returned a non-nil error, and the value it sends is
\* that error; when serverShutdown returned nil the watcher ends without
\* sending and any value the waiter got is the Serve Loop's.
C8_WatcherSendsOnlyShutdownError ==
    /\ (watcherPc = "send" \/ watcherSent) <=> (shutdownRet \in ShutdownErrors)
    /\ watcherPc = "send" \/ watcherSent => watcherErr = shutdownRet
    /\ watcherSent => received = shutdownRet /\ recvFrom = "watcher"
    /\ shutdownRet = Nil
         => /\ watcherPc = "done"
            /\ watcherErr = "none"
            /\ recvCount > 0 => recvFrom = "serve" /\ received = serveErr

C8_Witness ==
    /\ watcherSent
    /\ shutdownRet \in ShutdownErrors
    /\ received = shutdownRet

\* C9: however many interrupts are delivered, serverShutdown is invoked at
\* most once, and the delivery of an interrupt changes neither the watcher's
\* position nor the state of a shutdown (entered, returned value).
C9_ShutdownAtMostOnce ==
    /\ [](shutdownCalls <= 1)
    /\ [][interrupts' # interrupts
            => UNCHANGED <<watcherPc, shutdownCalls, inShutdown, shutdownRet>>]_vars

C9_Witness ==
    /\ interrupts >= 2
    /\ shutdownCalls = 1
    /\ watcherPc = "done"

\* C10: for every address, net.Listen is called with network "unix" and the
\* address minus its first five characters exactly when the address begins
\* with the characters u, n, i, x, ':' (case-sensitively); otherwise with
\* network "tcp" and the address unchanged.
C10_ListenerFactory ==
    network # "none"
        => IF /\ Len(address) >= 5
              /\ address[1] = "u" /\ address[2] = "n" /\ address[3] = "i"
              /\ address[4] = "x" /\ address[5] = ":"
           THEN network = "unix" /\ <<"u", "n", "i", "x", ":">> \o bindAddr = address
           ELSE network = "tcp" /\ bindAddr = address

C10_Witness ==
    /\ servePc = "bound"
    /\ network = "unix"
    /\ Len(bindAddr) = Len(address) - 5
    /\ Len(bindAddr) > 0

\* C11: once the listener is bound, the Serve Loop calls srv.Serve (plain,
\* no key pair is loaded) exactly when cert and key are both empty and
\* srv.ServeTLS otherwise; when loading the key pair fails the loop never
\* serves, in either mode, and its error is the value Start returns.
C11_ServeModeChoice ==
    /\ serveMode = "none"
         <=> servePc \in {"none", "listen", "bound"} \/ serveErr = BindError
    /\ serveMode = "plain" <=> serveMode # "none" /\ cert = <<>> /\ key = <<>>
    /\ serveMode = "tls" <=> serveMode # "none" /\ (cert # <<>> \/ key # <<>>)
    /\ hasServed => serveErr # TLSError
    /\ serveErr = TLSError
         => /\ serveMode = "tls"
            /\ servePc \in {"send", "done"}
            /\ mainPc = "returned" => result = TLSError /\ recvFrom = "serve"

C11_Witness ==
    /\ mainPc = "returned"
    /\ cert = <<>>
    /\ key # <<>>
    /\ serveMode = "tls"
    /\ result = TLSError

\* C12: when Start begins (or has finished) its blocking receive, the Serve
\* Loop goroutine has been launched, the interrupt subscription has been made
\* and the watcher goroutine has been launched; none of the three startup
\* steps can block; and the watcher's serverShutdown acts on the server the
\* Serve Loop runs (entering it makes a running Serve return).
C12_RegisteredBeforeWait ==
    /\ mainPc \in {"wait", "returned"}
         => servePc # "none" /\ subscribed /\ watcherPc # "none"
    /\ watcherPc # "none" => subscribed
    /\ mainPc = "startServer" => ENABLED startServer
    /\ mainPc = "notifySignal" => ENABLED notifySignal
    /\ mainPc = "goWatcher" => ENABLED goWatcher
    /\ shutdownCalls > 0 => inShutdown
    /\ shutdownCalls > 0 /\ servePc = "serving" => ENABLED serveClosed

C12_Witness ==
    /\ mainPc = "wait"
    /\ subscribed
    /\ watcherPc = "recvInterrupt"
    /\ servePc = "serving"
    /\ recvCount = 0

\* C13: under weak fairness of the goroutines, once the Serve Loop has
\* terminated (it holds an error to send) or an interrupt has been delivered
\* after the subscription, Start eventually returns.
C13_StartEventuallyReturns ==
    (servePc \in {"send", "done"} \/ interrupts > 0) ~> (mainPc = "returned")

C13_Witness ==
    /\ mainPc = "returned"
    /\ interrupts > 0
    /\ ~hasServed
    /\ received = ErrServerClosed

\* C14: a delivered interrupt is never lost: until the watcher has taken it,
\* it sits in the one-slot buffer, also when it arrives before the watcher
\* goroutine exists; under fairness serverShutdown is eventually invoked for
\* it, and never more than once.
C14_FirstInterruptNotLost ==
    /\ [](interrupts > 0 /\ watcherPc \in {"none", "recvInterrupt"}
            => interrupt = 1)
    /\ [](shutdownCalls <= 1)
    /\ (interrupts > 0) ~> (shutdownCalls = 1)

C14_Witness ==
    /\ mainPc = "goWatcher"
    /\ watcherPc = "none"
    /\ interrupts > 0
    /\ interrupt = 1

\* C15: whenever Start returns nil, an interrupt had been delivered and
\* serverShutdown had been invoked before that return; a return with no
\* interrupt delivered so far is a non-nil error.
C15_NilOnlyAfterInterrupt ==
    [][mainPc = "wait" /\ mainPc' = "returned"
         => /\ result' = Nil => interrupts >= 1 /\ shutdownCalls >= 1
            /\ interrupts = 0 => result' \in FailureErrors]_vars

C15_Witness ==
    /\ mainPc = "returned"
    /\ result = Nil
    /\ interrupts = 1
    /\ shutdownCalls = 1

\* C16: Start's return does not wait for serverShutdown to return: whenever
\* the Serve Loop offers its value while the watcher is still inside
\* serverShutdown, the waiter can take it at once; so a state is reached
\* where Start has returned nil and the shutdown call has not returned.
C16_ReturnNotOrderedAfterShutdown ==
    mainPc = "wait" /\ servePc = "send" /\ watcherPc = "inShutdown"
        => ENABLED serveSend

C16_Witness ==
    /\ mainPc = "returned"
    /\ result = Nil
    /\ watcherPc = "inShutdown"
    /\ shutdownRet = "none"

====
